---- MODULE Spec2Model ----
(***************************************************************************)
(* A model of the test-coverage-check GitHub action:                       *)
(*   Settings        (src/src/settings/settings.ts, lines 1-73)            *)
(*   Reporter        (src/src/coverage/reporter/reporter.ts, lines 1-62)   *)
(*   Coverage        (src/src/settings/settings.ts, lines 75-124)          *)
(*   formatter       (src/src/gh-reporter/formatter.ts, lines 1-5)         *)
(*   GithubReporter  (src/unnamed/part_001, lines 231-483: the variant     *)
(*                    that binds a coverage with useCoverage)              *)
(*   run             (src/src/main.ts, with the GithubReporter it imports, *)
(*                    src/src/gh-reporter/gh-reporter.ts, which is         *)
(*                    constructed with its coverage)                       *)
(*                                                                         *)
(* Strings are sequences of one-character strings, so that parseInt, trim  *)
(* and String.replace are computed character by character; a character     *)
(* outside ASCII is written by its code point ("U+2003").  A percentage    *)
(* is an IEEE-754 double, kept as its sign, its 53-bit mantissa and its    *)
(* exponent: the division and the multiplication that compute it round as  *)
(* the JavaScript operators do.                                            *)
(***************************************************************************)
EXTENDS Integers, Sequences, FiniteSets, TLC

\* ------------------------------------------------------------------ bounds
\* Largest lines.found / lines.hit of one entry of the parsed report.
MaxLines == 2
\* Largest number of entries (records) of the parsed report.
MaxEntries == 2
\* Number of uncovered lines of the large report that exercises the chunking
\* of annotations (120 is the case the specification names).
BigLines == 120

\* Largest number of calls of one behaviour that reach the host or await a
\* rejection (every operation of the reporter may be called any number of
\* times); none is made once more than MaxCalls host calls are issued or due.
MaxCalls == 3

\* ------------------------------------------------------------- strings
Digits == <<"0", "1", "2", "3", "4", "5", "6", "7", "8", "9">>

IsDigit(c) == \E i \in 1..10 : Digits[i] = c

DigitValue(c) == (CHOOSE i \in 1..10 : Digits[i] = c) - 1

\* The white space of ECMAScript (WhiteSpace and LineTerminator), which
\* String.prototype.trim strips and parseInt skips: 25 code points.  Space,
\* tab, LF, CR, FF and VT are written as themselves (VT has no escape and
\* stands between the quotes of the sixth member); a character outside
\* ASCII is written by its code point, here and in every string of the model,
\* so <<"U+2003", "7">> is the two-character string EM SPACE, 7.
WhiteSpace ==
    { " ", "\t", "\n", "\r", "\f", "",
      "U+00A0", "U+1680", "U+2000", "U+2001", "U+2002", "U+2003", "U+2004",
      "U+2005", "U+2006", "U+2007", "U+2008", "U+2009", "U+200A", "U+2028",
      "U+2029", "U+202F", "U+205F", "U+3000", "U+FEFF" }

IsSpace(c) == c \in WhiteSpace

\* s without its first n characters
Drop(s, n) == SubSeq(s, n + 1, Len(s))

RECURSIVE TrimStart(_)
TrimStart(s) ==
    IF s # <<>> /\ IsSpace(Head(s)) THEN TrimStart(Tail(s)) ELSE s

RECURSIVE TrimEnd(_)
TrimEnd(s) ==
    IF s # <<>> /\ IsSpace(s[Len(s)]) THEN TrimEnd(SubSeq(s, 1, Len(s) - 1)) ELSE s

\* String.prototype.trim
Trim(s) == TrimEnd(TrimStart(s))

\* the value of the longest prefix of decimal digits of s, read after acc
RECURSIVE DigitsValue(_, _)
DigitsValue(s, acc) ==
    IF s # <<>> /\ IsDigit(Head(s))
    THEN DigitsValue(Tail(s), acc * 10 + DigitValue(Head(s)))
    ELSE acc

\* parseInt(input, 10): leading white space is skipped, one sign is read, then
\* the longest run of digits; anything after it is ignored; NaN without a digit.
parseInt(input) ==
    LET s    == TrimStart(input)
        neg  == s # <<>> /\ Head(s) = "-"
        body == IF s # <<>> /\ Head(s) \in {"-", "+"} THEN Tail(s) ELSE s
    IN  IF body = <<>> \/ ~IsDigit(Head(body))
        THEN [isNaN |-> TRUE, value |-> 0]
        ELSE [isNaN |-> FALSE,
              value |-> IF neg THEN 0 - DigitsValue(body, 0) ELSE DigitsValue(body, 0)]

\* ------------------------------------------------------------ Settings
\* values of the min_threshold input
ThresholdInputs ==
    { <<>>, <<"a", "b", "c">>, <<"-", "1">>, <<"0">>, <<"1", "0", "0">>,
      <<"1", "0", "1">>, <<"9", "0">>, <<"2", "5">>, <<"5", "0", "x">>,
      <<" ", "7">>, <<"1", ".", "5">>, <<"-">>, <<"+", "5">>, <<"x", "1">>,
      <<"-", "2", "0">>, <<"9", "9", "9">>, <<"\t", "2", "6">>, <<"\n", "1", "0", "1">>,
      <<"2", "9">>, <<"U+2003", "7">>, <<"U+FEFF", "U+3000", "-", "3">> }

\* values of the github_token input
TokenInputs ==
    { <<>>, <<" ">>, <<"\t", "\n">>, <<"t", "o", "k", "\r", "\n">>, <<"U+2003">>,
      <<"U+00A0", "U+2028">>, <<"U+00E9">> }

\* arguments of Settings.setDefaultMinThreshold(threshold: number)
DefaultChoices == {-1, 0, 80, 100, 101}

\* the value of the report_file_path input
ReportPath == <<"l", "c", "o", "v">>

NoMessage == ""

Returned(v) == [kind |-> "value", value |-> v, message |-> NoMessage]

Thrown(m) == [kind |-> "error", value |-> 0, message |-> m]

readToken(token) ==
    IF Trim(token) = <<>> THEN Thrown("github_token is required") ELSE Returned(0)

\* mutant of readMinThreshold: the upper bound is compared with >= instead of >
readMinThresholdOffByOne(input, default) ==
    LET threshold == parseInt(input)
    IN  IF threshold.isNaN THEN Returned(default)
        ELSE IF threshold.value < 0 THEN Thrown("\"min_threshold\" cannot be negative")
        ELSE IF threshold.value >= 100
             THEN Thrown("\"min_threshold\" cannot be greater then 100")
        ELSE Returned(threshold.value)

readMinThreshold(input, default) ==
    LET threshold == parseInt(input)
    IN  IF threshold.isNaN THEN Returned(default)
        ELSE IF threshold.value < 0 THEN Thrown("\"min_threshold\" cannot be negative")
        ELSE IF threshold.value > 100
             THEN Thrown("\"min_threshold\" cannot be greater then 100")
        ELSE Returned(threshold.value)

readReportFilePath(exists) ==
    IF exists THEN Returned(0) ELSE Thrown("No coverage report found")

NoSettings == [token |-> <<>>, reportFilePath |-> <<>>, minThreshold |-> 0]

\* Settings.fromIO: the three readers run in the order of the object literal;
\* the first one that throws aborts the construction.
fromIO(token, input, exists, default) ==
    LET t == readToken(token)
        m == readMinThreshold(input, default)
        p == readReportFilePath(exists)
    IN  IF t.kind = "error" THEN [kind |-> "error", message |-> t.message, settings |-> NoSettings]
        ELSE IF m.kind = "error" THEN [kind |-> "error", message |-> m.message, settings |-> NoSettings]
        ELSE IF p.kind = "error" THEN [kind |-> "error", message |-> p.message, settings |-> NoSettings]
        ELSE [kind |-> "value", message |-> NoMessage,
              settings |-> [token |-> token, reportFilePath |-> ReportPath,
                            minThreshold |-> m.value]]

\* ------------------------------------------------------- Reporter / Coverage
\* A JavaScript number is an IEEE-754 double: a sign, a mantissa m of 53 bits
\* (most significant first, the first one 1) and the exponent e of the last
\* bit, for the value m * 2^e; zero has no mantissa.  Every operation rounds
\* its exact result to the nearest double, ties to the even mantissa.
\* Subnormal numbers, infinities and NaN do not occur for the inputs here.
Mantissa == 53

Zero == [neg |-> FALSE, m |-> <<>>, e |-> 0]

Zeros(n) == [i \in 1..n |-> 0]

Abs(i) == IF i < 0 THEN 0 - i ELSE i

\* the bits of the natural number n, without leading zeros
BitsOf(n) ==
    LET len == Cardinality({ i \in 0..30 : 2^i <= n })
    IN  [i \in 1..len |-> (n \div 2^(len - i)) % 2]

\* the natural number of a bit sequence of up to 30 bits
ValueOf(bits) ==
    LET v[i \in 0..Len(bits)] == IF i = 0 THEN 0 ELSE 2 * v[i - 1] + bits[i]
    IN  v[Len(bits)]

\* the last w bits of the natural number n
LowBits(n, w) == [i \in 1..w |-> (n \div 2^(w - i)) % 2]

\* bits + 1; carry is 1 when every bit was 1
Inc(bits) ==
    LET zeros == { i \in 1..Len(bits) : bits[i] = 0 }
    IN  IF zeros = {}
        THEN [m |-> <<1>> \o Zeros(Len(bits) - 1), carry |-> 1]
        ELSE LET j == CHOOSE i \in zeros : \A k \in zeros : k <= i
             IN  [m |-> [i \in 1..Len(bits) |->
                           IF i < j THEN bits[i] ELSE IF i = j THEN 1 ELSE 0],
                  carry |-> 0]

\* the double nearest to bits * 2^e (plus something below the last bit when
\* sticky), bits starting with 1
Round(neg, bits, e, sticky) ==
    LET n == Len(bits)
    IN  IF n <= Mantissa
        THEN [neg |-> neg, m |-> bits \o Zeros(Mantissa - n), e |-> e - (Mantissa - n)]
        ELSE LET kept == SubSeq(bits, 1, Mantissa)
                 half == bits[Mantissa + 1] = 1
                 more == sticky \/ \E i \in (Mantissa + 2)..n : bits[i] = 1
                 up   == half /\ (more \/ kept[Mantissa] = 1)
                 r    == Inc(kept)
             IN  IF up
                 THEN [neg |-> neg, m |-> r.m, e |-> e + (n - Mantissa) + r.carry]
                 ELSE [neg |-> neg, m |-> kept, e |-> e + (n - Mantissa)]

\* the integer i as a double
FromInt(i) == IF i = 0 THEN Zero ELSE Round(i < 0, BitsOf(Abs(i)), 0, FALSE)

\* the first k bits of the binary fraction r / d (r < d < 2^29), and what
\* remains: long division, as many bits at a time as r * 2^w leaves room for
RECURSIVE FracBits(_, _, _)
FracBits(r, d, k) ==
    IF k = 0 \/ r = 0 THEN [bits |-> Zeros(k), rem |-> r]
    ELSE LET room  == 30 - Len(BitsOf(d))
             w     == IF k < room THEN k ELSE room
             v     == r * 2^w
             first == LowBits(v \div d, w)
         IN  IF w = k THEN [bits |-> first, rem |-> v % d]
             ELSE LET rest == FracBits(v % d, d, k - w)
                  IN  [bits |-> first \o rest.bits, rem |-> rest.rem]

\* the number of zeros the binary fraction r / d starts with (0 < r < d):
\* the least z with r * 2^(z + 1) >= d
LeadingZeros(r, d) == Len(BitsOf((d + r - 1) \div r - 1)) - 1

\* n / d for integers n and d # 0
Div(n, d) ==
    IF n = 0 THEN Zero
    ELSE LET a   == Abs(n)
             b   == Abs(d)
             int == BitsOf(a \div b)
             r   == a % b
             z   == IF int = <<>> THEN LeadingZeros(r, b) ELSE 0
             k   == IF int = <<>> THEN z + Mantissa + 1 ELSE Mantissa + 1 - Len(int)
             f   == FracBits(r, b, k)
         IN  Round((n < 0) # (d < 0), int \o SubSeq(f.bits, z + 1, k), 0 - k, f.rem # 0)

\* bits * c + carry for a natural number c below 2^14: the last Len(bits)
\* bits of it and what is carried out of them, taken 16 bits at a time from
\* the right
RECURSIVE MulCarry(_, _, _)
MulCarry(bits, c, carry) ==
    LET w == Len(bits)
    IN  IF w <= 16
        THEN LET v == ValueOf(bits) * c + carry
             IN  [bits |-> LowBits(v % 2^w, w), carry |-> v \div 2^w]
        ELSE LET low  == MulCarry(SubSeq(bits, w - 15, w), c, carry)
                 high == MulCarry(SubSeq(bits, 1, w - 16), c, low.carry)
             IN  [bits |-> high.bits \o low.bits, carry |-> high.carry]

\* the bits of bits * c, bits starting with 1
MulBits(bits, c) ==
    LET p == MulCarry(bits, c, 0)
    IN  BitsOf(p.carry) \o p.bits

\* x * c for a double x and a natural number c > 0
MulInt(x, c) ==
    IF x.m = <<>> THEN x ELSE Round(x.neg, MulBits(x.m, c), x.e, FALSE)

\* the integer part of |x| (x below 2^31)
Floor(x) ==
    IF x.m = <<>> \/ Mantissa + x.e <= 0 THEN 0
    ELSE ValueOf(SubSeq(x.m, 1, Mantissa + x.e))

\* |x| is not an integer
HasFraction(x) ==
    x.m # <<>> /\ \E i \in 1..Mantissa : i > Mantissa + x.e /\ x.m[i] = 1

\* x >= t for an integer t
GeInt(x, t) ==
    IF ~x.neg THEN Floor(x) >= t
    ELSE Floor(x) < 0 - t \/ (Floor(x) = 0 - t /\ ~HasFraction(x))

\* x > t for an integer t
GtInt(x, t) ==
    IF ~x.neg THEN Floor(x) > t \/ (Floor(x) = t /\ HasFraction(x))
    ELSE Floor(x) < 0 - t

RECURSIVE SumHit(_)
SumHit(data) == IF data = <<>> THEN 0 ELSE Head(data).lines.hit + SumHit(Tail(data))

RECURSIVE SumFound(_)
SumFound(data) == IF data = <<>> THEN 0 ELSE Head(data).lines.found + SumFound(Tail(data))

\* mutant of toReport: the entries are kept when no line was found
toReportKeepsFiles(data) ==
    LET hit   == SumHit(data)
        found == SumFound(data)
        empty == found = 0
    IN  [percentage |-> IF empty THEN Zero ELSE MulInt(Div(hit, found), 100),
         files |-> data]

\* Reporter.toReport: the percentage is (hit / found) * 100, a division
\* and then a multiplication of doubles
toReport(data) ==
    LET hit   == SumHit(data)
        found == SumFound(data)
        empty == found = 0
    IN  [percentage |-> IF empty THEN Zero ELSE MulInt(Div(hit, found), 100),
         files |-> IF empty THEN <<>> ELSE data]

NoReport == [percentage |-> Zero, files |-> <<>>]

\* Reporter.reportFromFile on a file whose reading and parsing end as `content`
\* says: "unreadable" (readFile rejects), "blank" (content.trim() = ''),
\* "invalid" (the parser reports an error), "undefined" (the parser yields no
\* data), "valid" (the parser yields `data`).
reportFromFile(content, data) ==
    CASE content = "unreadable" ->
           [state |-> "rejected", message |-> "ENOENT", value |-> NoReport]
      [] content = "blank" ->
           [state |-> "resolved", message |-> NoMessage, value |-> toReport(<<>>)]
      [] content = "invalid" ->
           [state |-> "rejected", message |-> "Failed to parse string", value |-> NoReport]
      [] content = "undefined" ->
           [state |-> "rejected", message |-> "lcov parsed data is undefined",
            value |-> NoReport]
      [] OTHER ->
           [state |-> "resolved", message |-> NoMessage, value |-> toReport(data)]

\* Coverage.getPercentage
getPercentage(rep) == rep.percentage

\* Coverage.isEmpty
isEmpty(rep) == Len(rep.files) = 0

\* mutant of isPassThreshold: the comparison is strict
isPassThresholdStrict(rep, threshold) ==
    isEmpty(rep) \/ GtInt(rep.percentage, threshold)

\* Coverage.isPassThreshold
isPassThreshold(rep, threshold) ==
    isEmpty(rep) \/ GeInt(rep.percentage, threshold)

\* the callback of the flatMap: the details of `file` with hit = 0, as lines
UncoveredOf(file) ==
    LET zero == SelectSeq(file.lines.details, LAMBDA d : d.hit = 0)
    IN  [k \in 1..Len(zero) |-> [file |-> file.file, number |-> zero[k].line]]

\* files.flatMap(...): the lines of each file, concatenated in file order
RECURSIVE FlatMapUncovered(_)
FlatMapUncovered(files) ==
    IF files = <<>> THEN <<>>
    ELSE UncoveredOf(Head(files)) \o FlatMapUncovered(Tail(files))

\* mutant of getUncoveredLines: the files are not filtered by found > hit
getUncoveredLinesAllFiles(rep) == FlatMapUncovered(rep.files)

\* Coverage.getUncoveredLines
getUncoveredLines(rep) ==
    FlatMapUncovered(SelectSeq(rep.files, LAMBDA f : f.lines.found > f.lines.hit))

\* ------------------------------------------------------------- formatter
\* formatter.percentage: `${Number(p.toFixed(2))}%`.  toFixed(2) takes the
\* integer n nearest to the exact value of p * 100, the larger one of two;
\* the text is represented by n, the number of hundredths it shows (25% is
\* 2500, 33.33% is 3333).  An integer p has n = p * 100.
percentage(p) ==
    IF ~HasFraction(p) THEN (IF p.neg THEN 0 - Floor(p) * 100 ELSE Floor(p) * 100)
    ELSE LET y    == MulBits(p.m, 100)
             n    == Len(y) + p.e
             int  == IF n <= 0 THEN 0 ELSE ValueOf(SubSeq(y, 1, n))
             half == IF n >= 0 /\ n < Len(y) THEN y[n + 1] ELSE 0
         IN  IF p.neg THEN 0 - (int + half) ELSE int + half

\* ------------------------------------------------------- GithubReporter
\* process.cwd()
Cwd == <<"/", "w">>

\* the first index at which pat occurs in s, 0 when it does not occur
IndexOf(s, pat) ==
    LET at == { i \in 1..(Len(s) - Len(pat) + 1) : SubSeq(s, i, i + Len(pat) - 1) = pat }
    IN  IF at = {} THEN 0 ELSE CHOOSE i \in at : \A j \in at : i <= j

\* s.replace(pat, ''): the first occurrence of pat is removed, wherever it is
RemoveFirst(s, pat) ==
    LET i == IndexOf(s, pat)
    IN  IF i = 0 THEN s ELSE SubSeq(s, 1, i - 1) \o Drop(s, i + Len(pat) - 1)

\* removeBasename in getAnnotations: path.replace(`${process.cwd()}/`, '')
removeBasename(path) == RemoveFirst(path, Cwd \o <<"/">>)

\* files.find(f => f.name === path) !== undefined
HasFile(files, path) == \E i \in 1..Len(files) : files[i].name = path

AnnotationOf(line) ==
    [path |-> removeBasename(line.file), start_line |-> line.number,
     end_line |-> line.number, annotation_level |-> "failure",
     message |-> [text |-> "Uncovered line", index |-> 0, total |-> 0]]

\* .map((annotation, idx, all) => ({...annotation, message: `... (${idx + 1}/${all.length})`}))
Numbered(all) ==
    [i \in 1..Len(all) |->
        [all[i] EXCEPT !.message = [text |-> "Uncovered line", index |-> i, total |-> Len(all)]]]

\* one annotation per line of `lines`
AnnotationsOfLines(lines) == [i \in 1..Len(lines) |-> AnnotationOf(lines[i])]

\* mutant of getAnnotations: the uncovered lines are not filtered by the
\* pull request's files
getAnnotationsUnfiltered(rep, files) ==
    Numbered(AnnotationsOfLines(getUncoveredLines(rep)))

\* GithubReporter.getAnnotations, after fetchPRFiles returned `files`: the
\* flatMap yields nothing for a line whose path no file has, and one
\* annotation for any other line
getAnnotations(rep, files) ==
    Numbered(AnnotationsOfLines(
                 SelectSeq(getUncoveredLines(rep),
                           LAMBDA line : HasFile(files, removeBasename(line.file)))))

\* the host API's cap of annotations per call
ChunkLimit == 50

\* the callback of the reduce in sendCheck: the annotation joins the last
\* chunk while that chunk holds fewer than `limit`, else it opens a chunk
ChunkStep(acc, annotation, limit) ==
    IF acc = <<>> THEN << <<annotation>> >>
    ELSE IF Len(acc[Len(acc)]) < limit
         THEN [acc EXCEPT ![Len(acc)] = Append(@, annotation)]
         ELSE Append(acc, <<annotation>>)

\* annotations.reduce(callback, acc) over the elements lo..hi, left to right
\* (the range is halved, and the left half is evaluated before the right half
\* is entered, so that the evaluation stays shallow)
RECURSIVE Reduce(_, _, _, _, _)
Reduce(annotations, acc, lo, hi, limit) ==
    IF lo > hi THEN acc
    ELSE IF lo = hi THEN ChunkStep(acc, annotations[lo], limit)
    ELSE LET mid  == (lo + hi) \div 2
             left == Reduce(annotations, acc, lo, mid, limit)
         IN  IF left = <<>>
             THEN Reduce(annotations, <<>>, mid + 1, hi, limit)
             ELSE Reduce(annotations, left, mid + 1, hi, limit)

\* mutant of Chunks: a chunk is closed one annotation too late
ChunksOffByOne(annotations) ==
    Reduce(annotations, <<>>, 1, Len(annotations), ChunkLimit + 1)

\* the chunks sendCheck cuts the cached annotations into
Chunks(annotations) == Reduce(annotations, <<>>, 1, Len(annotations), ChunkLimit)

icons == [positive |-> "green heart", negative |-> "broken heart"]

\* The reporter's fields: coverage is null (bound = FALSE) or a Coverage.
NullCoverage == [bound |-> FALSE, report |-> NoReport]

BoundCoverage(rep) == [bound |-> TRUE, report |-> rep]

NotSetup == "Coverage is not setup"

\* GithubReporter.isPRCoverageOk
isPRCoverageOk(annotations) == Len(annotations) = 0

\* GithubReporter.getStatusIcon
getStatusIcon(annotations) ==
    IF isPRCoverageOk(annotations) THEN icons.positive ELSE icons.negative

\* GithubReporter.getStatusMessage, for a bound coverage
getStatusMessage(cov, annotations) ==
    IF isEmpty(cov.report) THEN "No code to cover."
    ELSE IF ~isPRCoverageOk(annotations) THEN "PR contains uncovered code!"
    ELSE "All code covered!"

NoText == [icon |-> "", message |-> "", footer |-> FALSE, current |-> 0, required |-> 0]

TextValue(t) == [kind |-> "value", error |-> NoMessage, text |-> t]

TextError(m) == [kind |-> "error", error |-> m, text |-> NoText]

\* GithubReporter.getWorkflowMessage: getCoverage throws while coverage is null
getWorkflowMessage(cov, annotations) ==
    IF ~cov.bound THEN TextError(NotSetup)
    ELSE TextValue([NoText EXCEPT !.icon = getStatusIcon(annotations),
                                  !.message = getStatusMessage(cov, annotations)])

\* GithubReporter.getCoverageComment: header, status message and footer
getCoverageComment(cov, annotations, threshold) ==
    IF ~cov.bound THEN TextError(NotSetup)
    ELSE TextValue([icon |-> getStatusIcon(annotations),
                    message |-> getStatusMessage(cov, annotations),
                    footer |-> TRUE,
                    current |-> percentage(getPercentage(cov.report)),
                    required |-> percentage(FromInt(threshold))])

\* ------------------------------- GithubReporter as main.ts constructs it
\* (src/src/gh-reporter/gh-reporter.ts: the coverage is a constructor
\* parameter and the status follows the threshold)
\* GithubReporter.getCurrentPercentage
getCurrentPercentage(rep) == percentage(getPercentage(rep))

\* GithubReporter.getRequiredPercentage
getRequiredPercentage(t) == percentage(FromInt(t))

\* GithubReporter.getStatusIcon of gh-reporter.ts
getStatusIcon_main(rep, t) ==
    IF isPassThreshold(rep, t) THEN icons.positive ELSE icons.negative

\* GithubReporter.getStatusMessage of gh-reporter.ts; the prefix of the
\* required percentage is part of the message text
getStatusMessage_main(rep, t) ==
    IF ~isPassThreshold(rep, t)
    THEN IF t = 100
         THEN "Code doesn't covered enough. Current: {current}, required: {required}"
         ELSE "Code doesn't covered enough. Current: {current}, required: >= {required}"
    ELSE "All code covered!"

\* GithubReporter.getWorkflowMessage of gh-reporter.ts
getWorkflowMessage_main(rep, t) ==
    [NoText EXCEPT !.icon = getStatusIcon_main(rep, t),
                   !.message = getStatusMessage_main(rep, t),
                   !.current = IF isPassThreshold(rep, t) THEN 0
                               ELSE getCurrentPercentage(rep),
                   !.required = IF isPassThreshold(rep, t) THEN 0
                                ELSE getRequiredPercentage(t)]

\* GithubReporter.getCoverageComment of gh-reporter.ts: the header shows the
\* icon and the current percentage, the second line is the status message
getCoverageComment_main(rep, t) ==
    [NoText EXCEPT !.icon = getStatusIcon_main(rep, t),
                   !.message = getStatusMessage_main(rep, t),
                   !.current = getCurrentPercentage(rep),
                   !.required = IF isPassThreshold(rep, t) THEN 0
                                ELSE getRequiredPercentage(t)]

\* GithubReporter.getAnnotations of gh-reporter.ts: one annotation per
\* uncovered line, not numbered
getAnnotations_main(rep) == AnnotationsOfLines(getUncoveredLines(rep))

\* ------------------------------------------------------------------ state
VARIABLES
    DEFAULT_MIN_THRESHOLD,  \* Settings.DEFAULT_MIN_THRESHOLD (static)
    settingsCall,           \* the last call made on Settings and how it ended
    content,                \* how reading and parsing the report file ends
    data,                   \* the entries the parser yields for the file
    report,                 \* the promise of Reporter.reportFromFile
    query,                  \* the last query made on the Coverage and its result
    threshold,              \* GithubReporter.threshold
    coverage,               \* GithubReporter.coverage
    coverageAnnotations,    \* GithubReporter.coverageAnnotations
    isPullRequest,          \* github.context.payload.pull_request !== undefined
    prFiles,                \* the files pulls.listFiles answers with
    offered,                \* the Report of the Coverage handed to useCoverage
    apiLog,                 \* the host API calls issued so far, in order
    usePc,                  \* the promise of the last useCoverage call
    inFlight,               \* the calls not settled (awaiting the host or a rejection)
    direct,                 \* the last fetchPRFiles / getAnnotations call that settled
    commentPc,              \* the promise of the last sendCoverageComment call
    checkPc,                \* the promise of the last sendCheck call
    reportPc,               \* the promise of the last sendReport call
    checkAnnotations,       \* last sendCheck: this.coverageAnnotations as it was called
    checkLog,               \* last sendCheck: where in apiLog its host calls are
    checkRunId,             \* last sendCheck: check.data.id of the created check run
    errors,                 \* the error each of these promises is rejected with
    run                     \* main.ts: where run() is and what it told core

settingsVars == <<DEFAULT_MIN_THRESHOLD, settingsCall>>

coverageVars == <<content, data, report, query>>

reporterVars == <<threshold, coverage, coverageAnnotations, isPullRequest, prFiles,
                  offered, apiLog, usePc, inFlight, direct, commentPc, checkPc, reportPc,
                  checkAnnotations, checkLog, checkRunId, errors>>

runVars == <<run>>

vars == <<settingsVars, coverageVars, reporterVars, runVars>>

\* ------------------------------------------------------- Settings: actions
NoCall == [op |-> "none", input |-> <<>>, token |-> <<>>, exists |-> FALSE,
           kind |-> "value", value |-> 0, message |-> NoMessage,
           settings |-> NoSettings]

SettingsInit ==
    /\ DEFAULT_MIN_THRESHOLD = 100
    /\ settingsCall = NoCall

\* Settings.setDefaultMinThreshold(t)
SetDefaultMinThreshold(t) ==
    /\ DEFAULT_MIN_THRESHOLD' = t
    /\ settingsCall' = [NoCall EXCEPT !.op = "setDefaultMinThreshold", !.value = t]

\* Settings.readMinThreshold(io), io.getInput('min_threshold') = input
ReadMinThreshold(input) ==
    LET r == readMinThreshold(input, DEFAULT_MIN_THRESHOLD)
    IN  /\ settingsCall' = [NoCall EXCEPT !.op = "readMinThreshold", !.input = input,
                                          !.kind = r.kind, !.value = r.value,
                                          !.message = r.message]
        /\ UNCHANGED DEFAULT_MIN_THRESHOLD

\* Settings.fromIO(io)
FromIO(token, input, exists) ==
    LET r == fromIO(token, input, exists, DEFAULT_MIN_THRESHOLD)
    IN  /\ settingsCall' = [NoCall EXCEPT !.op = "fromIO", !.input = input,
                                          !.token = token, !.exists = exists,
                                          !.kind = r.kind, !.message = r.message,
                                          !.settings = r.settings]
        /\ UNCHANGED DEFAULT_MIN_THRESHOLD

\* ------------------------------------------------------- Coverage: actions
Detail(l, h) == [line |-> l, hit |-> h]

\* lines.details of an entry.  The parser appends one detail per DA record, in
\* the order of the file, and reads found and hit from LF and LH.
DetailChoices ==
    { <<>>,
      <<Detail(2, 0), Detail(1, 0)>>,
      <<Detail(1, 0), Detail(3, 1), Detail(4, 0)>> }

PathA == <<"/", "w", "/", "a">>
PathB == <<"/", "w", "/", "b">>
PathV == <<"v", "/", "w", "/", "a">>

LinesChoices == [found : 0..MaxLines, hit : 0..MaxLines, details : DetailChoices]

\* LF and LH of larger files: ratios whose double, multiplied by 100, is
\* not the double nearest to the percentage (29 of 100 gives
\* 28.999999999999996), and one that is printed rounded (201 of 20000)
WideLines ==
    { [found |-> 100, hit |-> 29, details |-> <<>>],
      [found |-> 100, hit |-> 57, details |-> <<>>],
      [found |-> 25, hit |-> 7, details |-> <<>>],
      [found |-> 20000, hit |-> 201, details |-> <<>>] }

FileAt(i) == IF i % 2 = 1 THEN PathA ELSE PathB

\* the entry list whose i-th entry has the lines f[i]
DataOf(f) == [i \in 1..Len(f) |-> [file |-> FileAt(i), lines |-> f[i]]]

ContentKinds == {"unreadable", "blank", "invalid", "undefined"}

\* arguments of Coverage.isPassThreshold
ThresholdArgs == {0, 25, 26, 29, 100}

NoPromise == [state |-> "none", message |-> NoMessage, value |-> NoReport]

NoQuery ==
    [op |-> "none", arg |-> 0, bool |-> FALSE, number |-> Zero, lines |-> <<>>]

CoverageIdle ==
    /\ report = NoPromise
    /\ query = NoQuery

CoverageInit ==
    /\ \/ content \in ContentKinds /\ data = <<>>
       \/ /\ content = "valid"
          /\ \/ \E n \in 0..MaxEntries : \E f \in [1..n -> LinesChoices] : data = DataOf(f)
             \/ \E l \in WideLines : data = DataOf(<<l>>)
    /\ CoverageIdle

\* Reporter.reportFromFile(filepath), as Coverage.fromReportFile calls it
ReportFromFile ==
    /\ report.state = "none"
    /\ report' = reportFromFile(content, data)
    /\ UNCHANGED <<content, data, query>>

\* Coverage.getPercentage()
GetPercentage ==
    /\ report.state = "resolved"
    /\ query' = [NoQuery EXCEPT !.op = "getPercentage",
                                !.number = getPercentage(report.value)]
    /\ UNCHANGED <<content, data, report>>

\* Coverage.isEmpty()
IsEmpty ==
    /\ report.state = "resolved"
    /\ query' = [NoQuery EXCEPT !.op = "isEmpty", !.bool = isEmpty(report.value)]
    /\ UNCHANGED <<content, data, report>>

\* Coverage.isPassThreshold(t)
IsPassThreshold(t) ==
    /\ report.state = "resolved"
    /\ query' = [NoQuery EXCEPT !.op = "isPassThreshold", !.arg = t,
                                !.bool = isPassThreshold(report.value, t)]
    /\ UNCHANGED <<content, data, report>>

\* Coverage.getUncoveredLines()
GetUncoveredLines ==
    /\ report.state = "resolved"
    /\ query' = [NoQuery EXCEPT !.op = "getUncoveredLines",
                                !.lines = getUncoveredLines(report.value)]
    /\ UNCHANGED <<content, data, report>>

\* ------------------------------------------------- GithubReporter: actions
\* what the host answers to a failed call (error.message)
HostError == "HttpError"

\* check.data.id of a created check run
CheckRunIds == {11, 12}

NoError == [prefix |-> "", cause |-> ""]

Error(prefix, cause) == [prefix |-> prefix, cause |-> cause]

NoErrors == [use |-> NoError, comment |-> NoError, check |-> NoError, report |-> NoError]

ApiCall(api) ==
    [api |-> api, conclusion |-> "none", hasOutput |-> FALSE, summary |-> 0,
     annotations |-> <<>>, check_run_id |-> 0, body |-> NoText]

\* the operations that await pulls.listFiles
FetchOps == {"useCoverage", "getAnnotations", "fetchPRFiles"}

\* A call in flight: the operation, the host call it awaits, whether it is the
\* last call of its operation (the one usePc, commentPc, checkPc or reportPc
\* follows) and a part of the last sendReport (one reportPc awaits), and, for
\* sendCheck, the chunks not sent yet and check.data.id.
Pending(op, awaits) ==
    [op |-> op, awaits |-> awaits, last |-> op \notin {"getAnnotations", "fetchPRFiles"},
     part |-> FALSE, rest |-> <<>>, id |-> 0, error |-> NoError, ticks |-> 0]

\* A call that awaits a promise which is rejected already: the call returns a
\* pending promise and rejects with the same error once the rejection has
\* passed its awaits, one per job of the microtask queue (`ticks` of them
\* are left).  getAnnotations awaits fetchPRFiles(); useCoverage awaits
\* getAnnotations(), which awaits fetchPRFiles(); sendReport awaits
\* Promise.all, which awaits sendCoverageComment().
Rejecting(op, error, ticks) ==
    [Pending(op, "rejection") EXCEPT !.error = error, !.ticks = ticks]

\* the calls in flight that await a rejection
Rejections == { i \in 1..Len(inFlight) : inFlight[i].awaits = "rejection" }

\* the microtask queue is empty: the host answers a call in a later task,
\* when no rejection is on its way
Drained == Rejections = {}

NoDirect ==
    [op |-> "none", pc |-> "idle", error |-> NoError, files |-> <<>>, annotations |-> <<>>]

\* the calls of `api` issued so far
CallsOf(api) == SelectSeq(apiLog, LAMBDA c : c.api = api)

\* the host calls the calls in flight are still to issue: one per chunk that
\* a sendCheck has not sent
Reserved ==
    LET r[i \in 0..Len(inFlight)] ==
            IF i = 0 THEN 0 ELSE r[i - 1] + Len(inFlight[i].rest)
    IN  r[Len(inFlight)]

\* the calls that have reached the host: each issues one host call first,
\* and only sendCheck issues more (one checks.update per further chunk)
Started == Len(SelectSeq(apiLog, LAMBDA c : c.api # "checks.update"))

\* an operation that reaches the host or awaits a rejection may be called:
\* fewer than MaxCalls such calls are made or on their way, and not more
\* than MaxCalls host calls are issued or due.  Another call may thus be made
\* while a sendCheck call is sending its chunks.
MayCall ==
    /\ Started + Cardinality(Rejections) < MaxCalls
    /\ Len(apiLog) + Reserved <= MaxCalls

\* the calls in flight once the operations `ops` are called again (their
\* promises are no longer the last ones) and, for sendReport, once the parts
\* of an earlier sendReport are no longer awaited by the last one
Superseded(ops, parts) ==
    [i \in 1..Len(inFlight) |->
        [inFlight[i] EXCEPT !.last = @ /\ inFlight[i].op \notin ops,
                            !.part = @ /\ ~parts]]

\* the calls in flight without the i-th, which settled
Remove(i) ==
    [j \in 1..(Len(inFlight) - 1) |-> IF j < i THEN inFlight[j] ELSE inFlight[j + 1]]

\* the state the constructor leaves (coverage = null, coverageAnnotations = [])
ReporterIdle ==
    /\ coverage = NullCoverage
    /\ coverageAnnotations = <<>>
    /\ apiLog = <<>>
    /\ usePc = "idle"
    /\ inFlight = <<>>
    /\ direct = NoDirect
    /\ commentPc = "idle"
    /\ checkPc = "idle"
    /\ reportPc = "idle"
    /\ checkAnnotations = <<>>
    /\ checkLog = <<>>
    /\ checkRunId = 0
    /\ errors = NoErrors

\* Promise.all([comment, check]) as run awaits it: rejected as soon as one of
\* the two is rejected, resolved once both are resolved.
AllOf(all, comment, check) ==
    IF all # "pending" THEN all
    ELSE IF comment = "rejected" \/ check = "rejected" THEN "rejected"
    ELSE IF comment = "resolved" /\ check = "resolved" THEN "resolved"
    ELSE "pending"

\* the promises after a step, with the error sendReport rejects with
Settled(all, comment, check, errs) ==
    LET next == AllOf(all, comment, check)
    IN  [report |-> next,
         errors |-> IF all = "pending" /\ next = "rejected"
                    THEN [errs EXCEPT !.report = IF errs.comment # NoError
                                                 THEN errs.comment ELSE errs.check]
                    ELSE errs]

\* Promise.all of the last sendReport once the call inFlight[i] settled as
\* `pc` (with `error` when rejected): it is rejected by the first of its parts
\* that is rejected and resolved by the last of them that is resolved
PartSettled(i, pc, error) ==
    IF ~inFlight[i].part \/ reportPc # "pending"
    THEN [report |-> reportPc, error |-> errors.report]
    ELSE IF pc = "rejected" THEN [report |-> "rejected", error |-> error]
    ELSE IF \E j \in 1..Len(inFlight) : j # i /\ inFlight[j].part
    THEN [report |-> "pending", error |-> NoError]
    ELSE [report |-> "resolved", error |-> NoError]

\* useCoverage(coverage) up to its await: the coverage is assigned, then
\* getAnnotations calls fetchPRFiles, which throws outside a pull request
\* and otherwise issues pulls.listFiles.  The promise returned is pending in
\* both cases (usePc "fetching"): outside a pull request the rejection of
\* fetchPRFiles reaches it two microtasks later.  It may be called again; a
\* call made before that is not settled stays in flight.
UseCoverage ==
    /\ MayCall
    /\ coverage' = BoundCoverage(offered)
    /\ usePc' = "fetching"
    /\ errors' = [errors EXCEPT !.use = NoError]
    /\ IF ~isPullRequest
       THEN /\ inFlight' = Append(Superseded({"useCoverage"}, FALSE),
                                  Rejecting("useCoverage",
                                            Error("", "Cannot find pull_request"), 2))
            /\ UNCHANGED apiLog
       ELSE /\ apiLog' = Append(apiLog, ApiCall("pulls.listFiles"))
            /\ inFlight' = Append(Superseded({"useCoverage"}, FALSE),
                                  Pending("useCoverage", "pulls.listFiles"))
    /\ UNCHANGED <<threshold, coverageAnnotations, isPullRequest, prFiles, offered,
                   direct, commentPc, checkPc, reportPc, checkAnnotations, checkLog,
                   checkRunId>>

\* fetchPRFiles() or getAnnotations(coverage) called on the reporter itself,
\* up to its await.  Outside a pull request fetchPRFiles throws before its
\* await, so its promise is rejected as it returns, and getAnnotations,
\* which awaits that promise, is pending and rejects one microtask later;
\* in a pull request pulls.listFiles is issued.
FetchStart(op) ==
    /\ (isPullRequest \/ op = "getAnnotations") => MayCall
    /\ IF ~isPullRequest
       THEN IF op = "fetchPRFiles"
            THEN /\ direct' = [NoDirect EXCEPT
                                 !.op = op, !.pc = "rejected",
                                 !.error = Error("", "Cannot find pull_request")]
                 /\ UNCHANGED <<apiLog, inFlight>>
            ELSE /\ inFlight' = Append(inFlight,
                                       Rejecting(op, Error("", "Cannot find pull_request"), 1))
                 /\ UNCHANGED <<apiLog, direct>>
       ELSE /\ apiLog' = Append(apiLog, ApiCall("pulls.listFiles"))
            /\ inFlight' = Append(inFlight, Pending(op, "pulls.listFiles"))
            /\ UNCHANGED direct
    /\ UNCHANGED <<threshold, coverage, coverageAnnotations, isPullRequest, prFiles,
                   offered, usePc, commentPc, checkPc, reportPc, checkAnnotations,
                   checkLog, checkRunId, errors>>

\* GithubReporter.fetchPRFiles()
FetchPRFiles == FetchStart("fetchPRFiles")

\* GithubReporter.getAnnotations(coverage)
GetAnnotations == FetchStart("getAnnotations")

\* pulls.listFiles answers the call inFlight[i]: fetchPRFiles returns the
\* names and statuses, getAnnotations the annotations, and useCoverage caches
\* the annotations, whether or not it was called again since
ListFilesOk(i) ==
    LET c == inFlight[i]
    IN  /\ Drained
        /\ c.awaits = "pulls.listFiles"
        /\ inFlight' = Remove(i)
        /\ IF c.op = "useCoverage"
           THEN /\ coverageAnnotations' = getAnnotations(offered, prFiles)
                /\ usePc' = IF c.last THEN "resolved" ELSE usePc
                /\ UNCHANGED direct
           ELSE /\ direct' = [NoDirect EXCEPT
                                !.op = c.op, !.pc = "resolved",
                                !.files = IF c.op = "fetchPRFiles" THEN prFiles ELSE <<>>,
                                !.annotations = IF c.op = "getAnnotations"
                                                THEN getAnnotations(offered, prFiles)
                                                ELSE <<>>]
                /\ UNCHANGED <<coverageAnnotations, usePc>>
        /\ UNCHANGED <<threshold, coverage, isPullRequest, prFiles, offered, apiLog,
                       commentPc, checkPc, reportPc, checkAnnotations, checkLog,
                       checkRunId, errors>>

\* pulls.listFiles fails for the call inFlight[i]: fetchPRFiles wraps the
\* error and the call is rejected
ListFilesFail(i) ==
    LET c == inFlight[i]
        e == Error("Cannot fetch pr files list. Error: ", HostError)
    IN  /\ Drained
        /\ c.awaits = "pulls.listFiles"
        /\ inFlight' = Remove(i)
        /\ IF c.op = "useCoverage"
           THEN /\ usePc' = IF c.last THEN "rejected" ELSE usePc
                /\ errors' = IF c.last THEN [errors EXCEPT !.use = e] ELSE errors
                /\ UNCHANGED direct
           ELSE /\ direct' = [NoDirect EXCEPT !.op = c.op, !.pc = "rejected", !.error = e]
                /\ UNCHANGED <<usePc, errors>>
        /\ UNCHANGED <<threshold, coverage, coverageAnnotations, isPullRequest, prFiles,
                       offered, apiLog, commentPc, checkPc, reportPc, checkAnnotations,
                       checkLog, checkRunId>>

\* One job of the microtask queue: the continuation of the await that the
\* oldest rejection on its way has reached.  The calls in flight that await a
\* rejection are the queue, oldest job first.  With a further await to pass,
\* the rejection is queued again, behind the jobs queued meanwhile; with none,
\* the call rejects: useCoverage and sendReport (usePc and reportPc follow the
\* last call of each) or a getAnnotations call made on the reporter itself.
\* The caller may call the reporter between any two jobs.
Microtask ==
    LET i == CHOOSE j \in Rejections : \A k \in Rejections : j <= k
        c == inFlight[i]
    IN  /\ ~Drained
        /\ IF c.ticks > 1
           THEN /\ inFlight' = Append(Remove(i), [c EXCEPT !.ticks = @ - 1])
                /\ UNCHANGED <<usePc, reportPc, errors, direct>>
           ELSE /\ inFlight' = Remove(i)
                /\ usePc' = IF c.op = "useCoverage" /\ c.last THEN "rejected" ELSE usePc
                /\ reportPc' = IF c.op = "sendReport" /\ c.last
                               THEN "rejected" ELSE reportPc
                /\ errors' = IF ~c.last THEN errors
                             ELSE IF c.op = "useCoverage"
                             THEN [errors EXCEPT !.use = c.error]
                             ELSE [errors EXCEPT !.report = c.error]
                /\ direct' = IF c.op = "getAnnotations"
                             THEN [NoDirect EXCEPT !.op = c.op, !.pc = "rejected",
                                                   !.error = c.error]
                             ELSE direct
        /\ UNCHANGED <<threshold, coverage, coverageAnnotations, isPullRequest, prFiles,
                       offered, apiLog, commentPc, checkPc, checkAnnotations, checkLog,
                       checkRunId>>

\* GithubReporter.getWorkflowMessage(): the reporter is read and nothing is
\* assigned; the caller gets getWorkflowMessage(coverage, coverageAnnotations)
GetWorkflowMessage == UNCHANGED reporterVars

\* GithubReporter.getCoverageComment(): likewise, the caller gets
\* getCoverageComment(coverage, coverageAnnotations, threshold)
GetCoverageComment == UNCHANGED reporterVars

\* sendCoverageComment() up to its await
CommentStart ==
    LET c == getCoverageComment(coverage, coverageAnnotations, threshold)
    IN  IF ~isPullRequest
        THEN [pc |-> "rejected", calls |-> <<>>, waits |-> <<>>,
              error |-> Error("", "Coverage comment supports only in pull_request workflow")]
        ELSE IF c.kind = "error"
        THEN [pc |-> "rejected", calls |-> <<>>, waits |-> <<>>,
              error |-> Error("", c.error)]
        ELSE [pc |-> "pending", error |-> NoError,
              calls |-> << [ApiCall("issues.createComment") EXCEPT !.body = c.text] >>,
              waits |-> << Pending("sendCoverageComment", "issues.createComment") >>]

\* sendCheck() up to its first await: checks.create is issued
CheckStart ==
    IF Len(coverageAnnotations) = 0
    THEN [pc |-> "creating", rest |-> <<>>,
          calls |-> << [ApiCall("checks.create") EXCEPT !.conclusion = "success"] >>]
    ELSE LET chunks == Chunks(coverageAnnotations)
         IN  [pc |-> "creating", rest |-> Tail(chunks),
              calls |-> << [ApiCall("checks.create") EXCEPT
                              !.conclusion = "failure", !.hasOutput = TRUE,
                              !.summary = Len(coverageAnnotations),
                              !.annotations = Head(chunks)] >>]

\* the calls a send puts in flight, marked as parts of a sendReport or not
AsPart(calls, part) == [i \in 1..Len(calls) |-> [calls[i] EXCEPT !.part = part]]

\* GithubReporter.sendCoverageComment(); it may be called again, and every
\* call in a pull request, with a coverage bound, issues issues.createComment
SendCoverageComment ==
    LET c == CommentStart
    IN  /\ c.calls # <<>> => MayCall
        /\ commentPc' = c.pc
        /\ apiLog' = apiLog \o c.calls
        /\ errors' = [errors EXCEPT !.comment = c.error]
        /\ inFlight' = Superseded({"sendCoverageComment"}, FALSE) \o c.waits
        /\ UNCHANGED <<threshold, coverage, coverageAnnotations, isPullRequest,
                       prFiles, offered, usePc, direct, checkPc, reportPc,
                       checkAnnotations, checkLog, checkRunId>>

\* GithubReporter.sendCheck(); it may be called again, and every call issues
\* checks.create for the annotations cached as it is called
SendCheck ==
    LET k == CheckStart
    IN  /\ MayCall
        /\ checkPc' = k.pc
        /\ checkAnnotations' = coverageAnnotations
        /\ checkLog' = <<Len(apiLog) + 1>>
        /\ checkRunId' = 0
        /\ apiLog' = apiLog \o k.calls
        /\ errors' = [errors EXCEPT !.check = NoError]
        /\ inFlight' = Append(Superseded({"sendCheck"}, FALSE),
                              [Pending("sendCheck", "checks.create") EXCEPT !.rest = k.rest])
        /\ UNCHANGED <<threshold, coverage, coverageAnnotations, isPullRequest,
                       prFiles, offered, usePc, direct, commentPc, reportPc>>

\* GithubReporter.sendReport(): both sends are started, in this order, and
\* Promise.all awaits them.  The promise returned is pending: when
\* sendCoverageComment throws before its await, its rejection reaches
\* Promise.all and then sendReport, two microtasks later.
SendReport ==
    LET c == CommentStart
        k == CheckStart
    IN  /\ MayCall
        /\ commentPc' = c.pc
        /\ checkPc' = k.pc
        /\ checkAnnotations' = coverageAnnotations
        /\ checkLog' = <<Len(apiLog) + Len(c.calls) + 1>>
        /\ checkRunId' = 0
        /\ apiLog' = (apiLog \o c.calls) \o k.calls
        /\ reportPc' = "pending"
        /\ errors' = [errors EXCEPT !.comment = c.error, !.check = NoError,
                                    !.report = NoError]
        /\ inFlight' = Append(Superseded({"sendCoverageComment", "sendCheck",
                                          "sendReport"}, TRUE)
                                \o (IF c.pc = "rejected"
                                    THEN << Rejecting("sendReport", c.error, 2) >>
                                    ELSE AsPart(c.waits, TRUE)),
                              [Pending("sendCheck", "checks.create") EXCEPT
                                 !.rest = k.rest, !.part = TRUE])
        /\ UNCHANGED <<threshold, coverage, coverageAnnotations, isPullRequest,
                       prFiles, offered, usePc, direct>>

\* issues.createComment answers the call inFlight[i]
CreateCommentOk(i) ==
    LET c == inFlight[i]
        s == PartSettled(i, "resolved", NoError)
    IN  /\ Drained
        /\ c.awaits = "issues.createComment"
        /\ inFlight' = Remove(i)
        /\ commentPc' = IF c.last THEN "resolved" ELSE commentPc
        /\ reportPc' = s.report
        /\ errors' = [errors EXCEPT !.report = s.error]
        /\ UNCHANGED <<threshold, coverage, coverageAnnotations, isPullRequest,
                       prFiles, offered, apiLog, usePc, direct, checkPc,
                       checkAnnotations, checkLog, checkRunId>>

\* issues.createComment fails for the call inFlight[i]: sendCoverageComment
\* rejects with the host's error
CreateCommentFail(i) ==
    LET c == inFlight[i]
        e == Error("", HostError)
        s == PartSettled(i, "rejected", e)
    IN  /\ Drained
        /\ c.awaits = "issues.createComment"
        /\ inFlight' = Remove(i)
        /\ commentPc' = IF c.last THEN "rejected" ELSE commentPc
        /\ reportPc' = s.report
        /\ errors' = [errors EXCEPT !.comment = IF c.last THEN e ELSE @,
                                    !.report = s.error]
        /\ UNCHANGED <<threshold, coverage, coverageAnnotations, isPullRequest,
                       prFiles, offered, apiLog, usePc, direct, checkPc,
                       checkAnnotations, checkLog, checkRunId>>

\* the sendCheck call inFlight[i] after an answered call: the next chunk is
\* sent as an update of the check run `id`, with the number of annotations
\* cached by now as its summary, or sendCheck resolves
CheckNext(i, id) ==
    LET c == inFlight[i]
        s == PartSettled(i, "resolved", NoError)
    IN  IF c.rest = <<>>
        THEN /\ inFlight' = Remove(i)
             /\ checkPc' = IF c.last THEN "resolved" ELSE checkPc
             /\ reportPc' = s.report
             /\ errors' = [errors EXCEPT !.report = s.error]
             /\ UNCHANGED <<apiLog, checkLog>>
        ELSE /\ inFlight' = [inFlight EXCEPT ![i] = [c EXCEPT !.awaits = "checks.update",
                                                              !.rest = Tail(c.rest),
                                                              !.id = id]]
             /\ apiLog' = Append(apiLog, [ApiCall("checks.update") EXCEPT
                                            !.check_run_id = id, !.hasOutput = TRUE,
                                            !.summary = Len(coverageAnnotations),
                                            !.annotations = Head(c.rest)])
             /\ checkPc' = IF c.last THEN "updating" ELSE checkPc
             /\ checkLog' = IF c.last THEN Append(checkLog, Len(apiLog) + 1) ELSE checkLog
             /\ UNCHANGED <<reportPc, errors>>

\* checks.create answers the call inFlight[i] with the check run `id`
ChecksCreateOk(i, id) ==
    /\ Drained
    /\ inFlight[i].awaits = "checks.create"
    /\ checkRunId' = IF inFlight[i].last THEN id ELSE checkRunId
    /\ CheckNext(i, id)
    /\ UNCHANGED <<threshold, coverage, coverageAnnotations, isPullRequest,
                   prFiles, offered, usePc, direct, commentPc, checkAnnotations>>

\* checks.update answers the call inFlight[i]
ChecksUpdateOk(i) ==
    /\ Drained
    /\ inFlight[i].awaits = "checks.update"
    /\ CheckNext(i, inFlight[i].id)
    /\ UNCHANGED <<threshold, coverage, coverageAnnotations, isPullRequest,
                   prFiles, offered, usePc, direct, commentPc, checkAnnotations,
                   checkRunId>>

\* checks.create or checks.update fails for the call inFlight[i]: sendCheck
\* rejects with the host's error and sends no further chunk
ChecksCallFail(i) ==
    LET c == inFlight[i]
        e == Error("", HostError)
        s == PartSettled(i, "rejected", e)
    IN  /\ Drained
        /\ c.awaits \in {"checks.create", "checks.update"}
        /\ inFlight' = Remove(i)
        /\ checkPc' = IF c.last THEN "rejected" ELSE checkPc
        /\ reportPc' = s.report
        /\ errors' = [errors EXCEPT !.check = IF c.last THEN e ELSE @,
                                    !.report = s.error]
        /\ UNCHANGED <<threshold, coverage, coverageAnnotations, isPullRequest,
                       prFiles, offered, apiLog, usePc, direct, commentPc,
                       checkAnnotations, checkLog, checkRunId>>

\* ------------------------------------------------- GithubReporter: inputs
PRFile(name) == [name |-> name, status |-> "modified"]

\* the answers of pulls.listFiles
PRFileLists ==
    { <<>>,
      <<PRFile(<<"a">>)>>,
      <<PRFile(<<"b">>), PRFile(<<"v", "a">>)>>,
      <<PRFile(<<"a">>), PRFile(<<"b">>)>> }

Lines(found, hit, details) == [found |-> found, hit |-> hit, details |-> details]

Entry(file, lines) == [file |-> file, lines |-> lines]

ReporterLines ==
    { Lines(2, 0, <<Detail(1, 0), Detail(2, 0)>>),
      Lines(2, 1, <<Detail(1, 1), Detail(2, 0)>>),
      Lines(1, 1, <<Detail(1, 0)>>) }

\* one file with n lines, none of them hit
BigData(n) == << Entry(PathA, Lines(n, 0, [i \in 1..n |-> Detail(i, 0)])) >>

\* a reporter and its surroundings: the threshold it is constructed with, the
\* event, the answer of pulls.listFiles and the entries behind the Coverage
\* handed to useCoverage
ReporterCase(t, pr, files, d) ==
    [threshold |-> t, isPullRequest |-> pr, prFiles |-> files, data |-> d]

\* the reporters whose calls are followed: in a pull request, a report with
\* lines of a file of the pull request uncovered (one, three, one more than a
\* chunk holds, and BigLines of them), one whose uncovered lines are in no
\* file of the pull request, and one without entries; and the first and the
\* last on a push
ReporterCases ==
    { ReporterCase(50, pr, <<PRFile(<<"a">>)>>,
                   <<Entry(PathA, Lines(2, 1, <<Detail(1, 1), Detail(2, 0)>>))>>) :
        pr \in BOOLEAN }
    \cup { ReporterCase(100, pr, <<>>, <<>>) : pr \in BOOLEAN }
    \cup { ReporterCase(100, TRUE, <<PRFile(<<"a">>), PRFile(<<"b">>)>>,
                        <<Entry(PathA, Lines(2, 1, <<Detail(1, 1), Detail(2, 0)>>)),
                          Entry(PathB, Lines(2, 0, <<Detail(1, 0), Detail(2, 0)>>))>>),
            ReporterCase(50, TRUE, <<PRFile(<<"b">>), PRFile(<<"v", "a">>)>>,
                        <<Entry(PathA, Lines(2, 0, <<Detail(1, 0), Detail(2, 0)>>))>>) }
    \cup { ReporterCase(50, TRUE, <<PRFile(<<"a">>)>>, BigData(n)) :
              n \in {ChunkLimit + 1, BigLines} }

ReporterInit ==
    /\ \E c \in ReporterCases :
          /\ threshold = c.threshold
          /\ isPullRequest = c.isPullRequest
          /\ prFiles = c.prFiles
          /\ offered = toReport(c.data)
    /\ ReporterIdle

\* ---------------------------------------------------------------- main.ts
\* run has told core nothing yet
NoRun == [pc |-> "idle", kind |-> "none", text |-> NoText, message |-> NoMessage]

RunUnused == run = NoRun

\* core.info(text): the run ends without being marked failed
info(text) == [pc |-> "done", kind |-> "info", text |-> text, message |-> NoMessage]

\* core.setFailed(...): with the workflow message `text`, or, in the catch,
\* with error.message
setFailed(text, message) ==
    [pc |-> "done", kind |-> "setFailed", text |-> text, message |-> message]

\* mutant of runOutcome: the workflow message is logged whatever the coverage
runOutcomeAlwaysInfo(rep, t) == info(getWorkflowMessage_main(rep, t))

\* run, after both sends resolved: the threshold decides between core.info
\* and core.setFailed, both given the workflow message
runOutcome(rep, t) ==
    IF isPassThreshold(rep, t)
    THEN info(getWorkflowMessage_main(rep, t))
    ELSE setFailed(getWorkflowMessage_main(rep, t), NoMessage)

\* run at `await Promise.all(...)`: it goes on when the promise resolves and
\* enters the catch when it rejects; r is the run before the step
afterAll(all, errs, rep, t, r) ==
    IF r.pc # "sending" THEN r
    ELSE IF all = "rejected" THEN setFailed(NoText, errs.report.cause)
    ELSE IF all = "resolved" THEN runOutcome(rep, t)
    ELSE r

\* sendCoverageComment() of gh-reporter.ts up to its await
CommentStart_main(rep, t) ==
    IF ~isPullRequest
    THEN [pc |-> "rejected", calls |-> <<>>,
          error |-> Error("", "Coverage comment supports only in pull_request workflow")]
    ELSE [pc |-> "pending", error |-> NoError,
          calls |-> << [ApiCall("issues.createComment") EXCEPT
                          !.body = getCoverageComment_main(rep, t)] >>]

\* sendCheck() of gh-reporter.ts up to its await: one checks.create, with
\* every annotation
CheckStart_main(rep) ==
    LET annotations == getAnnotations_main(rep)
    IN  [pc |-> "creating",
         calls |-> << IF Len(annotations) = 0
                      THEN [ApiCall("checks.create") EXCEPT !.conclusion = "success"]
                      ELSE [ApiCall("checks.create") EXCEPT
                              !.conclusion = "failure", !.hasOutput = TRUE,
                              !.summary = Len(annotations),
                              !.annotations = annotations] >>]

\* run() up to its first await: Settings.fromIO(core), then
\* Coverage.fromReportFile starts reading; an error of fromIO is caught
RunStart(token, input, exists) ==
    LET r == fromIO(token, input, exists, DEFAULT_MIN_THRESHOLD)
    IN  /\ run.pc = "idle"
        /\ FromIO(token, input, exists)
        /\ run' = IF r.kind = "error" THEN setFailed(NoText, r.message)
                   ELSE [NoRun EXCEPT !.pc = "reading"]
        /\ UNCHANGED <<coverageVars, reporterVars>>

\* Coverage.fromReportFile settles: a rejection is caught; otherwise the
\* reporter is constructed and both sends are started, in this order, and
\* Promise.all awaits them
RunReportRead ==
    LET p == reportFromFile(content, data)
        t == settingsCall.settings.minThreshold
        c == CommentStart_main(p.value, t)
        k == CheckStart_main(p.value)
        s == Settled("pending", c.pc, k.pc, [errors EXCEPT !.comment = c.error])
    IN  /\ run.pc = "reading"
        /\ report' = p
        /\ UNCHANGED <<settingsVars, content, data, query>>
        /\ IF p.state = "rejected"
           THEN /\ run' = setFailed(NoText, p.message)
                /\ UNCHANGED reporterVars
           ELSE /\ threshold' = t
                /\ coverage' = BoundCoverage(p.value)
                /\ commentPc' = c.pc
                /\ checkPc' = k.pc
                /\ apiLog' = (apiLog \o c.calls) \o k.calls
                /\ reportPc' = s.report
                /\ errors' = s.errors
                /\ run' = afterAll(s.report, s.errors, p.value, t,
                                   [NoRun EXCEPT !.pc = "sending"])
                /\ UNCHANGED <<coverageAnnotations, isPullRequest, prFiles, offered,
                               usePc, inFlight, direct, checkAnnotations, checkLog, checkRunId>>

\* issues.createComment answers (ok) or fails: sendCoverageComment settles,
\* with the host's error when it fails
RunCommentAnswer(ok) ==
    LET errs == IF ok THEN errors ELSE [errors EXCEPT !.comment = Error("", HostError)]
        s    == Settled(reportPc, IF ok THEN "resolved" ELSE "rejected", checkPc, errs)
    IN  /\ run.pc \in {"sending", "done"}
        /\ commentPc = "pending"
        /\ commentPc' = IF ok THEN "resolved" ELSE "rejected"
        /\ reportPc' = s.report
        /\ errors' = s.errors
        /\ run' = afterAll(s.report, s.errors, coverage.report, threshold, run)
        /\ UNCHANGED <<settingsVars, coverageVars, threshold, coverage,
                       coverageAnnotations, isPullRequest, prFiles, offered, apiLog,
                       usePc, inFlight, direct, checkPc, checkAnnotations, checkLog, checkRunId>>

\* checks.create answers (ok) or fails: sendCheck settles
RunCheckAnswer(ok) ==
    LET errs == IF ok THEN errors ELSE [errors EXCEPT !.check = Error("", HostError)]
        s    == Settled(reportPc, commentPc, IF ok THEN "resolved" ELSE "rejected", errs)
    IN  /\ run.pc \in {"sending", "done"}
        /\ checkPc = "creating"
        /\ checkPc' = IF ok THEN "resolved" ELSE "rejected"
        /\ reportPc' = s.report
        /\ errors' = s.errors
        /\ run' = afterAll(s.report, s.errors, coverage.report, threshold, run)
        /\ UNCHANGED <<settingsVars, coverageVars, threshold, coverage,
                       coverageAnnotations, isPullRequest, prFiles, offered, apiLog,
                       usePc, inFlight, direct, commentPc, checkAnnotations, checkLog, checkRunId>>

\* lines of an entry of the report file of a run
RunLinesChoices ==
    [found : 0..MaxLines, hit : 0..MaxLines,
     details : { <<>>, <<Detail(2, 0), Detail(1, 0)>> }]

\* a run starts with the default threshold untouched, a report file of up to
\* two records, and an event that is a pull request or not
RunInit ==
    /\ SettingsInit
    /\ \/ content \in ContentKinds /\ data = <<>>
       \/ /\ content = "valid"
          /\ \/ \E n \in {0, 1, 2} : \E f \in [1..n -> RunLinesChoices] : data = DataOf(f)
             \/ \E l \in WideLines : data = DataOf(<<l>>)
    /\ CoverageIdle
    /\ threshold = 100
    /\ isPullRequest \in BOOLEAN
    /\ prFiles = <<>>
    /\ offered = NoReport
    /\ ReporterIdle
    /\ RunUnused

\* ---------------------------------------------------------- specifications
\* the variables of the parts a specification does not exercise
SettingsUnused == SettingsInit

CoverageUnused ==
    /\ content = "blank"
    /\ data = <<>>
    /\ CoverageIdle

ReporterUnused ==
    /\ threshold = 100
    /\ isPullRequest = FALSE
    /\ prFiles = <<>>
    /\ offered = NoReport
    /\ ReporterIdle

InitSettings == SettingsInit /\ CoverageUnused /\ ReporterUnused /\ RunUnused

NextSettings ==
    \/ \E t \in DefaultChoices :
          SetDefaultMinThreshold(t) /\ UNCHANGED <<coverageVars, reporterVars, runVars>>
    \/ \E input \in ThresholdInputs :
          ReadMinThreshold(input) /\ UNCHANGED <<coverageVars, reporterVars, runVars>>
    \/ \E token \in TokenInputs, input \in ThresholdInputs, exists \in BOOLEAN :
          FromIO(token, input, exists) /\ UNCHANGED <<coverageVars, reporterVars, runVars>>

\* Settings: the static default and the three readers
SpecSettings == InitSettings /\ [][NextSettings]_vars

InitCoverage == SettingsUnused /\ CoverageInit /\ ReporterUnused /\ RunUnused

NextCoverage ==
    \/ ReportFromFile /\ UNCHANGED <<settingsVars, reporterVars, runVars>>
    \/ GetPercentage /\ UNCHANGED <<settingsVars, reporterVars, runVars>>
    \/ IsEmpty /\ UNCHANGED <<settingsVars, reporterVars, runVars>>
    \/ \E t \in ThresholdArgs :
          IsPassThreshold(t) /\ UNCHANGED <<settingsVars, reporterVars, runVars>>
    \/ GetUncoveredLines /\ UNCHANGED <<settingsVars, reporterVars, runVars>>

\* Reporter and Coverage: a report file is read and the Coverage is queried
SpecCoverage == InitCoverage /\ [][NextCoverage]_vars

InitReporter == SettingsUnused /\ CoverageUnused /\ ReporterInit /\ RunUnused

\* Every operation of the reporter may be called at any time and any number
\* of times; between two calls jobs of the microtask queue may run, and once
\* it is empty the host answers the calls in flight in any order.
NextReporter ==
    \/ UseCoverage /\ UNCHANGED <<settingsVars, coverageVars, runVars>>
    \/ FetchPRFiles /\ UNCHANGED <<settingsVars, coverageVars, runVars>>
    \/ GetAnnotations /\ UNCHANGED <<settingsVars, coverageVars, runVars>>
    \/ GetWorkflowMessage /\ UNCHANGED <<settingsVars, coverageVars, runVars>>
    \/ GetCoverageComment /\ UNCHANGED <<settingsVars, coverageVars, runVars>>
    \/ SendCoverageComment /\ UNCHANGED <<settingsVars, coverageVars, runVars>>
    \/ SendCheck /\ UNCHANGED <<settingsVars, coverageVars, runVars>>
    \/ SendReport /\ UNCHANGED <<settingsVars, coverageVars, runVars>>
    \/ Microtask /\ UNCHANGED <<settingsVars, coverageVars, runVars>>
    \/ \E i \in 1..Len(inFlight) :
          ListFilesOk(i) /\ UNCHANGED <<settingsVars, coverageVars, runVars>>
    \/ \E i \in 1..Len(inFlight) :
          ListFilesFail(i) /\ UNCHANGED <<settingsVars, coverageVars, runVars>>
    \/ \E i \in 1..Len(inFlight) :
          CreateCommentOk(i) /\ UNCHANGED <<settingsVars, coverageVars, runVars>>
    \/ \E i \in 1..Len(inFlight) :
          CreateCommentFail(i) /\ UNCHANGED <<settingsVars, coverageVars, runVars>>
    \/ \E i \in 1..Len(inFlight), id \in CheckRunIds :
          ChecksCreateOk(i, id) /\ UNCHANGED <<settingsVars, coverageVars, runVars>>
    \/ \E i \in 1..Len(inFlight) :
          ChecksUpdateOk(i) /\ UNCHANGED <<settingsVars, coverageVars, runVars>>
    \/ \E i \in 1..Len(inFlight) :
          ChecksCallFail(i) /\ UNCHANGED <<settingsVars, coverageVars, runVars>>

\* GithubReporter: a coverage is bound and reported to the host
SpecReporter == InitReporter /\ [][NextReporter]_vars

\* the entry lists behind the Coverage whose binding is followed alone
BindLines ==
    ReporterLines \cup { Lines(2, 0, <<Detail(1, 0), Detail(1, 0)>>) }

BindEntries == { Entry(f, l) : f \in {PathA, PathB, PathV}, l \in BindLines }

InitBind ==
    /\ SettingsUnused
    /\ CoverageUnused
    /\ threshold = 100
    /\ isPullRequest \in BOOLEAN
    /\ prFiles \in PRFileLists
    /\ \E n \in {0, 1, 2} : \E d \in [1..n -> BindEntries] : offered = toReport(d)
    /\ ReporterIdle
    /\ RunUnused

NextBind ==
    \/ UseCoverage /\ UNCHANGED <<settingsVars, coverageVars, runVars>>
    \/ FetchPRFiles /\ UNCHANGED <<settingsVars, coverageVars, runVars>>
    \/ GetAnnotations /\ UNCHANGED <<settingsVars, coverageVars, runVars>>
    \/ Microtask /\ UNCHANGED <<settingsVars, coverageVars, runVars>>
    \/ \E i \in 1..Len(inFlight) :
          ListFilesOk(i) /\ UNCHANGED <<settingsVars, coverageVars, runVars>>
    \/ \E i \in 1..Len(inFlight) :
          ListFilesFail(i) /\ UNCHANGED <<settingsVars, coverageVars, runVars>>

\* GithubReporter.useCoverage, getAnnotations and fetchPRFiles, called in
\* any number and order, over every small report
SpecBind == InitBind /\ [][NextBind]_vars

InitRun == RunInit

NextRun ==
    \/ \E token \in TokenInputs, input \in ThresholdInputs, exists \in BOOLEAN :
          RunStart(token, input, exists)
    \/ RunReportRead
    \/ \E ok \in BOOLEAN : RunCommentAnswer(ok)
    \/ \E ok \in BOOLEAN : RunCheckAnswer(ok)

\* main.ts: one run of the action, from the inputs to what core is told
SpecRun == InitRun /\ [][NextRun]_vars

\* ================================================================= claims
\* the parts of a Coverage query that depend on the entries of the file
Sums == [found |-> SumFound(data), hit |-> SumHit(data)]

\* C1: whenever the entries of the report sum to found > 0, the percentage of
\* the Report of toReport is the number 100 * sum(hit) / sum(found), the one
\* ratio over all the entries (the double nearest to it), and getPercentage
\* returns that number.
C1_Original ==
    (report.state = "resolved" /\ content = "valid" /\ Sums.found > 0) =>
        /\ report.value.percentage = Div(100 * Sums.hit, Sums.found)
        /\ query.op = "getPercentage" =>
             query.number = Div(100 * Sums.hit, Sums.found)

\* C2: a report whose entries sum to found = 0 (blank content, no entry, or
\* entries that all have found = 0) has percentage 0 and no files; isEmpty
\* is true and isPassThreshold is true for every threshold.
C2_NothingFoundIsEmptyAndPasses ==
    (report.state = "resolved" /\ Sums.found = 0) =>
        /\ report.value.percentage = Zero
        /\ report.value.files = <<>>
        /\ query.op = "isEmpty" => query.bool
        /\ query.op = "isPassThreshold" => query.bool

\* C2 witness: entries are present, none has a found line, and the report
\* passed the threshold 100.
C2_Witness ==
    /\ report.state = "resolved"
    /\ content = "valid"
    /\ Len(data) > 0
    /\ Sums.found = 0
    /\ query.op = "isPassThreshold" /\ query.arg = 100 /\ query.bool

\* a <= b for two doubles that are not negative: the smaller exponent, or the
\* same exponent and the mantissa that is not the larger one
LessEq(a, b) ==
    IF a.m = <<>> THEN TRUE
    ELSE IF b.m = <<>> THEN FALSE
    ELSE IF a.e # b.e THEN a.e < b.e
    ELSE \A i \in 1..Mantissa :
            a.m[i] > b.m[i] => \E j \in 1..(i - 1) : a.m[j] < b.m[j]

\* C3: isPassThreshold(t) is true exactly when the report has no files or
\* its percentage is at least t; with 1 of 4 lines hit it is true for 25 and
\* false for 26.
C3_PassThresholdInclusive ==
    query.op = "isPassThreshold" =>
        /\ query.bool <=>
             \/ Len(report.value.files) = 0
             \/ LessEq(FromInt(query.arg), report.value.percentage)
        /\ (Sums.found = 4 /\ Sums.hit = 1 /\ query.arg = 25) => query.bool
        /\ (Sums.found = 4 /\ Sums.hit = 1 /\ query.arg = 26) => ~query.bool

\* C3 witness: 1 of 4 lines hit passes the threshold 25.
C3_Witness ==
    /\ query.op = "isPassThreshold"
    /\ Sums.found = 4 /\ Sums.hit = 1
    /\ query.arg = 25
    /\ query.bool

\* the details entries getUncoveredLines is to report: <<i, j>> is the j-th
\* detail of the i-th file, the file has found > hit and the detail hit = 0
UncoveredAt(files) ==
    UNION { { <<i, j>> : j \in { k \in 1..Len(files[i].lines.details) :
                                    files[i].lines.details[k].hit = 0 } } :
            i \in { k \in 1..Len(files) : files[k].lines.found > files[k].lines.hit } }

\* p comes before q: an earlier file, or the same file and an earlier detail
Before(p, q) == p[1] < q[1] \/ (p[1] = q[1] /\ p[2] < q[2])

\* `lines` holds one {file, number} per entry of UncoveredAt and nothing else,
\* in the order of the files and, within a file, of its details
ListsUncovered(lines, files) ==
    LET at == UncoveredAt(files)
    IN  /\ Len(lines) = Cardinality(at)
        /\ \A p \in at :
             lines[Cardinality({ q \in at : Before(q, p) }) + 1]
               = [file |-> files[p[1]].file,
                  number |-> files[p[1]].lines.details[p[2]].line]

\* the entries of one file follow each other by ascending line number
AscendingWithinFile(files) ==
    \A p, q \in UncoveredAt(files) :
        (p[1] = q[1] /\ p[2] < q[2]) =>
            files[p[1]].lines.details[p[2]].line <= files[q[1]].lines.details[q[2]].line

\* C4 as amended: getUncoveredLines returns exactly one {file, number} per
\* details entry with hit = 0 of a file with found > hit, ordered by the
\* file's position and then by the entry's position in the file's details;
\* the Report is left as it was and a further call returns the same sequence.
C4_Lists ==
    query.op = "getUncoveredLines" => ListsUncovered(query.lines, report.value.files)

C4_Step ==
    /\ report.state = "resolved" => report' = report
    /\ (query.op = "getUncoveredLines" /\ query'.op = "getUncoveredLines") =>
         query'.lines = query.lines

\* C4 (amended): every result of getUncoveredLines lists the uncovered
\* details in file order and details order (C4_Lists); no call changes the
\* Report, and consecutive calls return the same sequence (C4_Step).
C4_UncoveredLinesInDetailsOrder == []C4_Lists /\ [][C4_Step]_vars

\* C4 as stated: the same, with the lines of a file in ascending line number.
C4_Original ==
    query.op = "getUncoveredLines" =>
        /\ ListsUncovered(query.lines, report.value.files)
        /\ AscendingWithinFile(report.value.files)

\* C4 witness: a file with found = hit holds a detail with hit = 0 that is not
\* reported, a file with found > hit holds one that is.
C4_Witness ==
    /\ query.op = "getUncoveredLines"
    /\ Len(query.lines) > 0
    /\ \E i \in 1..Len(report.value.files) :
          /\ report.value.files[i].lines.found = report.value.files[i].lines.hit
          /\ \E j \in 1..Len(report.value.files[i].lines.details) :
                report.value.files[i].lines.details[j].hit = 0
          /\ \A k \in 1..Len(query.lines) :
                query.lines[k].file # report.value.files[i].file

\* C9: readMinThreshold throws for -1, for 101 and for every parsed integer
\* outside 0..100, returns the parsed integer when it is in 0..100 (0 and
\* 100 included), and returns the configured default, without an error, when
\* the input does not parse; the default is the last value given to
\* setDefaultMinThreshold, 100 at first.
C9_ReadState ==
    settingsCall.op = "readMinThreshold" =>
        LET p    == parseInt(settingsCall.input)
            ok   == settingsCall.kind = "value"
            is(s, v) == settingsCall.input = s => (ok /\ settingsCall.value = v)
        IN  /\ (~p.isNaN /\ (p.value < 0 \/ p.value > 100)) => ~ok
            /\ (~p.isNaN /\ p.value \in 0..100) => (ok /\ settingsCall.value = p.value)
            /\ p.isNaN => (ok /\ settingsCall.value = DEFAULT_MIN_THRESHOLD)
            /\ settingsCall.input \in { <<"-", "1">>, <<"1", "0", "1">> } => ~ok
            /\ is(<<"0">>, 0)
            /\ is(<<"1", "0", "0">>, 100)
            /\ is(<<"9", "0">>, 90)
            /\ is(<<>>, DEFAULT_MIN_THRESHOLD)
            /\ is(<<"a", "b", "c">>, DEFAULT_MIN_THRESHOLD)

C9_DefaultStep ==
    /\ settingsCall'.op = "setDefaultMinThreshold" =>
         DEFAULT_MIN_THRESHOLD' = settingsCall'.value
    /\ settingsCall'.op # "setDefaultMinThreshold" =>
         DEFAULT_MIN_THRESHOLD' = DEFAULT_MIN_THRESHOLD

\* C9: the default is 100 at first, every readMinThreshold result is as
\* C9_ReadState says, and only setDefaultMinThreshold changes the default,
\* to its argument (C9_DefaultStep).
C9_ReadMinThreshold ==
    /\ DEFAULT_MIN_THRESHOLD = 100
    /\ []C9_ReadState
    /\ [][C9_DefaultStep]_vars

\* C9 witness: the default was set to 80 and a blank input was read as 80.
C9_Witness ==
    /\ settingsCall.op = "readMinThreshold"
    /\ settingsCall.input = <<>>
    /\ settingsCall.kind = "value"
    /\ settingsCall.value = 80
    /\ DEFAULT_MIN_THRESHOLD = 80

\* C10: every value readMinThreshold returns and every minThreshold of a
\* Settings that fromIO returns is in 0..100, whatever default was set.
C10_Original ==
    /\ (settingsCall.op = "readMinThreshold" /\ settingsCall.kind = "value") =>
         settingsCall.value \in 0..100
    /\ (settingsCall.op = "fromIO" /\ settingsCall.kind = "value") =>
         settingsCall.settings.minThreshold \in 0..100

\* the names of the files of the pull request
PRNames == { prFiles[i].name : i \in 1..Len(prFiles) }

\* the uncovered lines of the coverage handed to the reporter
OfferedLines == getUncoveredLines(offered)

\* the lists of annotations getAnnotations has returned: the one a resolved
\* useCoverage cached and the one a resolved getAnnotations call answered
Computed ==
    (IF usePc = "resolved" THEN {coverageAnnotations} ELSE {})
      \cup (IF direct.op = "getAnnotations" /\ direct.pc = "resolved"
            THEN {direct.annotations} ELSE {})

\* C5: every annotation of a list getAnnotations has computed is for an
\* uncovered line of the report whose path, stripped of the working
\* directory, names a file of the pull request, with start_line = end_line =
\* the line number; every uncovered line of such a file has exactly one
\* annotation and an uncovered line of any other file has none.
C5_AnnotationsOnlyForPRFiles ==
    \A annotations \in Computed :
        LET lines == OfferedLines
        IN  /\ \A i \in 1..Len(annotations) :
                 /\ annotations[i].start_line = annotations[i].end_line
                 /\ annotations[i].path \in PRNames
                 /\ \E k \in 1..Len(lines) :
                       /\ removeBasename(lines[k].file) = annotations[i].path
                       /\ lines[k].number = annotations[i].start_line
            /\ \A k \in 1..Len(lines) :
                 LET path == removeBasename(lines[k].file)
                     n    == lines[k].number
                 IN  Cardinality({ i \in 1..Len(annotations) :
                                     /\ annotations[i].path = path
                                     /\ annotations[i].start_line = n })
                       = IF path \in PRNames
                         THEN Cardinality({ j \in 1..Len(lines) :
                                              /\ removeBasename(lines[j].file) = path
                                              /\ lines[j].number = n })
                         ELSE 0
            /\ \A k \in 1..Len(lines) :
                 /\ (lines[k].file = PathA /\ <<"a">> \in PRNames) =>
                      \E i \in 1..Len(annotations) :
                          /\ annotations[i].path = <<"a">>
                          /\ annotations[i].start_line = lines[k].number
                 /\ (lines[k].file = PathV /\ <<"v", "a">> \in PRNames) =>
                      \E i \in 1..Len(annotations) :
                          /\ annotations[i].path = <<"v", "a">>
                          /\ annotations[i].start_line = lines[k].number

\* C5 witness: the report holds an uncovered line in a file of the pull
\* request, which is annotated, and one in a file that is not, which is not;
\* useCoverage cached the list and a getAnnotations call returned it too.
C5_Witness ==
    /\ usePc = "resolved"
    /\ Len(coverageAnnotations) > 0
    /\ direct.op = "getAnnotations" /\ direct.pc = "resolved"
    /\ direct.annotations = coverageAnnotations
    /\ \E k \in 1..Len(OfferedLines) :
          removeBasename(OfferedLines[k].file) \notin PRNames

\* the host calls the last sendCheck call has issued
CheckCalls == [k \in 1..Len(checkLog) |-> apiLog[checkLog[k]]]

Min(a, b) == IF a <= b THEN a ELSE b

\* the calls sendCheck is to issue for the annotations `all`, the created
\* check run being `id`
ExpectedCheckCalls(all, id) ==
    IF Len(all) = 0
    THEN << [api |-> "checks.create", conclusion |-> "success", hasOutput |-> FALSE,
             summary |-> 0, annotations |-> <<>>, check_run_id |-> 0,
             body |-> NoText] >>
    ELSE [k \in 1..((Len(all) + 49) \div 50) |->
            [api |-> IF k = 1 THEN "checks.create" ELSE "checks.update",
             conclusion |-> IF k = 1 THEN "failure" ELSE "none",
             hasOutput |-> TRUE,
             summary |-> Len(all),
             annotations |-> SubSeq(all, 50 * (k - 1) + 1, Min(Len(all), 50 * k)),
             check_run_id |-> IF k = 1 THEN 0 ELSE id,
             body |-> NoText]]

RECURSIVE AnnotationsOf(_)
AnnotationsOf(calls) ==
    IF calls = <<>> THEN <<>> ELSE Head(calls).annotations \o AnnotationsOf(Tail(calls))

\* C6: for N cached annotations a sendCheck call issues, for N = 0, one
\* checks.create with conclusion success and no output; for N > 0, one
\* checks.create with conclusion failure, the summary N and the first
\* min(N, 50) annotations, then one checks.update of that check run per
\* further chunk of at most 50, in order; the chunks concatenated are the
\* cached annotations.  The calls of the last sendCheck call are compared one
\* by one, whatever other calls were made before and during it; of every
\* call, the last or not, each checks.create and checks.update has this form.
C6_CheckCallSequence ==
    LET calls    == CheckCalls
        expected == ExpectedCheckCalls(checkAnnotations, checkRunId)
    IN  /\ checkPc = "idle" => calls = <<>>
        /\ checkPc # "idle" =>
             /\ Len(calls) \in 1..Len(expected)
             /\ \A k \in 1..Len(calls) : calls[k] = expected[k]
        /\ checkPc = "creating" => Len(calls) = 1
        /\ checkPc = "resolved" =>
             /\ calls = expected
             /\ AnnotationsOf(calls) = checkAnnotations
             /\ \A k \in 1..Len(calls) : Len(calls[k].annotations) <= 50
        /\ \A i \in 1..Len(apiLog) :
             /\ apiLog[i].api = "checks.create" =>
                  IF apiLog[i].conclusion = "success"
                  THEN ~apiLog[i].hasOutput /\ apiLog[i].annotations = <<>>
                  ELSE /\ apiLog[i].conclusion = "failure"
                       /\ apiLog[i].summary > 0
                       /\ Len(apiLog[i].annotations) = Min(apiLog[i].summary, 50)
             /\ apiLog[i].api = "checks.update" =>
                  /\ apiLog[i].check_run_id \in CheckRunIds
                  /\ Len(apiLog[i].annotations) \in 1..50

\* C6 witness: a sendCheck call resolved after a checks.create and the updates
\* for the annotations of the large report (120: 1..50, 51..100, 101..120).
C6_Witness ==
    /\ checkPc = "resolved"
    /\ Len(checkAnnotations) = BigLines
    /\ Len(CheckCalls) = 3
    /\ CheckCalls[2].api = "checks.update"
    /\ CheckCalls[3].annotations = SubSeq(checkAnnotations, 101, BigLines)

\* a sendCheck call resolved whose checks.create and checks.update are not
\* neighbours in the log: another operation reached the host between its
\* chunks (51 annotations: 1..50, then another call, then 51)
ChunksInterleaved ==
    /\ checkPc = "resolved"
    /\ Len(checkAnnotations) = ChunkLimit + 1
    /\ Len(CheckCalls) = 2
    /\ checkLog[2] > checkLog[1] + 1

\* no pulls.listFiles call was answered (or none can be made): no useCoverage
\* call has completed
Uninitialized ==
    \/ ~isPullRequest
    \/ Len(CallsOf("pulls.listFiles"))
          = Cardinality({ i \in 1..Len(inFlight) : inFlight[i].awaits = "pulls.listFiles" })

\* C7: while no useCoverage call has completed, no reporting call produces a
\* message or issues a host API call: each of them fails.
C7_Original ==
    Uninitialized =>
        /\ getWorkflowMessage(coverage, coverageAnnotations).kind = "error"
        /\ getCoverageComment(coverage, coverageAnnotations, threshold).kind = "error"
        /\ commentPc \in {"idle", "rejected"}
        /\ checkPc \in {"idle", "rejected"}
        /\ \/ reportPc \in {"idle", "rejected"}
           \/ \E i \in Rejections : inFlight[i].op = "sendReport" /\ inFlight[i].last
        /\ \A i \in 1..Len(apiLog) : apiLog[i].api = "pulls.listFiles"

\* C8: sendReport starts both sends, and has not settled while one of the
\* two sends it started has not.
C8_Original ==
    /\ reportPc # "idle" => (commentPc # "idle" /\ checkPc # "idle")
    /\ reportPc \in {"resolved", "rejected"} =>
         \A i \in 1..Len(inFlight) : ~inFlight[i].part

\* C11: the percentage of every Report that reportFromFile / toReport
\* produces is in the range 0..100.
C11_Original ==
    report.state = "resolved" =>
        /\ ~report.value.percentage.neg
        /\ LessEq(report.value.percentage, FromInt(100))

\* C13: an operation whose host API call failed is rejected with an error
\* that wraps the host's message (a prefix, then the message) and awaits no
\* further host call (the call is not issued again), and the failure reaches
\* the caller of sendReport.
C13_Original ==
    /\ \A op \in {"use", "comment", "check"} :
          errors[op].cause = HostError => errors[op].prefix # ""
    /\ errors.use.cause = HostError => usePc = "rejected"
    /\ direct.error.cause = HostError =>
          (direct.pc = "rejected" /\ direct.error.prefix # "")
    /\ errors.comment.cause = HostError => commentPc = "rejected"
    /\ errors.check.cause = HostError => checkPc = "rejected"
    /\ \A i \in 1..Len(inFlight) :
          inFlight[i].last =>
              /\ inFlight[i].op = "useCoverage" => usePc = "fetching"
              /\ inFlight[i].op = "sendCoverageComment" => commentPc = "pending"
              /\ inFlight[i].op = "sendCheck" => checkPc \in {"creating", "updating"}
              /\ inFlight[i].op = "sendReport" => reportPc = "pending"
    /\ errors.report.cause = HostError => reportPc = "rejected"

\* C14: while no useCoverage call has completed (the fetch is pending or has
\* failed) no coverage is bound and the reporting calls fail with 'Coverage
\* is not setup'; a bound coverage always comes with the annotations computed
\* from it.
C14_Original ==
    /\ Uninitialized =>
          /\ coverage = NullCoverage
          /\ getWorkflowMessage(coverage, coverageAnnotations).error = NotSetup
          /\ getCoverageComment(coverage, coverageAnnotations, threshold).error = NotSetup
    /\ coverage.bound =>
          /\ usePc = "resolved"
          /\ coverageAnnotations = getAnnotations(coverage.report, prFiles)

\* C15: once the coverage is bound, a message with the positive icon and
\* 'All code covered!' or 'No code to cover.' is produced, and a check run
\* with conclusion success is created, only for a coverage that passes the
\* threshold.
C15_Original ==
    LET message == getWorkflowMessage(coverage, coverageAnnotations)
        comment == getCoverageComment(coverage, coverageAnnotations, threshold)
    IN  usePc = "resolved" =>
            /\ \A r \in {message, comment} :
                   ( /\ r.kind = "value"
                     /\ r.text.icon = icons.positive
                     /\ r.text.message \in {"All code covered!", "No code to cover."} ) =>
                       isPassThreshold(coverage.report, threshold)
            /\ \A i \in 1..Len(apiLog) :
                   (apiLog[i].api = "checks.create" /\ apiLog[i].conclusion = "success") =>
                       isPassThreshold(coverage.report, threshold)

\* the inputs of the finished run: what Settings.fromIO read
RunThreshold ==
    LET p == parseInt(settingsCall.input)
    IN  IF p.isNaN THEN 100 ELSE p.value

\* a validation, file, parse, context or network step of the run threw
RunThrew ==
    \/ Trim(settingsCall.token) = <<>>
    \/ RunThreshold \notin 0..100
    \/ ~settingsCall.exists
    \/ content \in {"unreadable", "invalid", "undefined"}
    \/ ~isPullRequest
    \/ errors.comment.cause = HostError
    \/ errors.check.cause = HostError

\* the coverage of the report file passes the threshold that was read: the
\* report has no files, or its percentage is not below the threshold
RunPasses ==
    \/ report.value.files = <<>>
    \/ LessEq(FromInt(RunThreshold), report.value.percentage)

\* C12: a finished run has told core exactly one thing: core.info of the
\* workflow message (success) exactly when no step threw and the coverage
\* passes the threshold, an empty report included; core.setFailed otherwise,
\* with the workflow message as its text when nothing threw and the
\* coverage is below the threshold, and with the error's message when a
\* step threw.  Before the run is finished core was told nothing.
C12_RunOutcome ==
    /\ run.pc # "done" => run.kind = "none"
    /\ run.pc = "done" =>
         /\ run.kind \in {"info", "setFailed"}
         /\ run.kind = "info" <=> (~RunThrew /\ RunPasses)
         /\ run.kind = "info" =>
              /\ run.text = getWorkflowMessage_main(report.value, RunThreshold)
              /\ run.text.icon = icons.positive
              /\ run.text.message = "All code covered!"
         /\ (~RunThrew /\ ~RunPasses) =>
              /\ run.text = getWorkflowMessage_main(report.value, RunThreshold)
              /\ run.text.icon = icons.negative
              /\ run.message = NoMessage
         /\ RunThrew => (run.text = NoText /\ run.message # NoMessage)

\* C12 witness: a run on a report file with 29 of 100 lines hit and the
\* threshold 25, in a pull request whose comment and check were accepted,
\* ended in core.info.
C12_Witness ==
    /\ run.pc = "done"
    /\ run.kind = "info"
    /\ content = "valid"
    /\ Sums.found = 100 /\ Sums.hit = 29
    /\ RunThreshold = 25
    /\ commentPc = "resolved"
    /\ checkPc = "resolved"

====
